---- MODULE Spec2Model ----
(***************************************************************************)
(* A model of thestral2's request dispatcher and relay engine (app.go)     *)
(* and of its KCP transport (lib/kcp.go).                                  *)
(*                                                                         *)
(* The module holds several state machines over one set of variables.     *)
(* Each has its own specification and leaves the variables of the others   *)
(* at their idle values:                                                   *)
(*   SpecRun    Run, the downstream servers and their dispatch loops;      *)
(*   SpecApp    one request through processOneRequest, doRelay and the two *)
(*              relayHalf goroutines (SpecRelay: doRelay alone);           *)
(*   SpecFrame  the KCP framing: Write, sendKeepAlive and Close on one     *)
(*              side, Read on the other, over the byte stream of the       *)
(*              underlying session;                                        *)
(*   SpecWrite  the sizes kcpConnWrapper.Write computes;                   *)
(*   SpecKA     the keep-alive manager and the goroutines that store the   *)
(*              timestamps of a connection (SpecKALive: with fairness);    *)
(*   SpecDial   KCPTransport.Dial, its helper goroutine and the context.   *)
(***************************************************************************)
EXTENDS Integers, Sequences, FiniteSets, TLC

VARIABLES
    \* ---- app.go: one request and its tunnel
    pc,          \* position of the worker goroutine (processOneRequest, doRelay)
    target,      \* req.TargetAddr(): [kind, addr]
    ruleName,    \* local of processOneRequest
    upstreams,   \* local of processOneRequest
    selected,    \* local of processOneRequest
    pErr,        \* the ProxyError upstream.Request returned, NoErr when none
    appCtx,      \* ctx given to Run: "active" or "canceled"
    reqCtx,      \* connect context: "none", "active", "deadline", "canceled"
    relayCtx,    \* relay context: "none", "active", "canceled"
    calls,       \* what the worker called on its collaborators
    half,        \* the two relay goroutines, by source name
    \* ---- lib/kcp.go: framing
    fr,
    \* ---- lib/kcp.go: keep-alive manager
    ka,
    \* ---- lib/kcp.go: Dial
    dl,
    \* ---- app.go: Run and the downstream servers
    srv

appVars == <<pc, target, ruleName, upstreams, selected, pErr, appCtx, reqCtx,
             relayCtx, calls, half>>
kcpVars == <<fr, ka, dl>>
notApp == <<fr, ka, dl, srv>>
vars == <<pc, target, ruleName, upstreams, selected, pErr, appCtx, reqCtx,
          relayCtx, calls, half, fr, ka, dl, srv>>

Idle == "idle"

IsPrefix(s, t) == Len(s) <= Len(t) /\ SubSeq(t, 1, Len(s)) = s

Min(a, b) == IF a < b THEN a ELSE b

Range(s) == {s[i] : i \in 1..Len(s)}

SeqsUpTo(S, n) == UNION {[1..k -> S] : k \in 0..n}

(***************************************************************************)
(*                        app.go: dispatcher and relay                     *)
(***************************************************************************)

\* Bounds of the request model.
MaxCand == 1        \* longest upstream list the rule matcher returns
AppSrcLen == 1      \* bytes a relay source delivers at most, under SpecApp
MaxSrcLen == 3      \* bytes a relay source delivers at most, under SpecRelay
RelayBufLen == 2    \* relayBufferSize, scaled down

\* app.upstreamNames and the keys of app.upstreams after NewThestralApp; the
\* constructor refuses an empty upstream configuration.
upstreamNames == <<"u1", "u2">>

\* The TargetAddr variants; "other" stands for any type the switch does not name.
TargetKinds == {"TCP4Addr", "TCP6Addr", "DomainNameAddr", "other"}
Targets == {[kind |-> k, addr |-> "a"] : k \in TargetKinds}

NoErr == [Error |-> "nil", ErrType |-> "none"]
\* Errors an upstream client returns from Request.
UpstreamErrs == {[Error |-> "context deadline exceeded", ErrType |-> "GeneralFailure"],
                 [Error |-> "connection refused", ErrType |-> "ConnectionRefused"]}

Halves == {"downstream", "upstream"}

NoCalls == [Success |-> 0, Fail |-> 0, failArg |-> NoErr,
            Request |-> 0, requestUp |-> "", requestAddr |-> [kind |-> "", addr |-> ""],
            AddError |-> 0, addErrorArg |-> "",
            OpenTunnelMonitor |-> 0,
            upClose |-> 0, downClose |-> 0, tmClose |-> 0,
            IncBytesUploaded |-> 0, IncBytesDownloaded |-> 0,
            incAfterClose |-> FALSE]

\* A relay goroutine: its position, the bytes its source can still deliver at
\* most (avail), the bytes read so far (srcRead), the bytes that reached the
\* destination (dstData) and the locals of relayHalf and of the relay closure.
\* ctxAtErr is the state of relayCtx when the call that ended the loop of
\* relayHalf with an error returned; the code does not keep it.
NoHalf(avail) == [pc |-> Idle, avail |-> avail, srcRead |-> <<>>, buf |-> <<>>,
                  dstData |-> <<>>, nw |-> 0, n |-> 0, err |-> "nil", log |-> "",
                  ctxAtErr |-> ""]

InitApp ==
    /\ pc = "classify"
    /\ target \in Targets
    /\ ruleName = ""
    /\ upstreams = <<>>
    /\ selected = ""
    /\ pErr = NoErr
    /\ appCtx = "active"
    /\ reqCtx = "none"
    /\ relayCtx = "none"
    /\ calls = NoCalls
    /\ half = [h \in Halves |-> NoHalf(AppSrcLen)]

IdleApp ==
    /\ pc = Idle
    /\ target = [kind |-> "", addr |-> ""]
    /\ ruleName = ""
    /\ upstreams = <<>>
    /\ selected = ""
    /\ pErr = NoErr
    /\ appCtx = Idle
    /\ reqCtx = "none"
    /\ relayCtx = "none"
    /\ calls = NoCalls
    /\ half = [h \in Halves |-> NoHalf(0)]

SupportedMut(kind) == TRUE

\* The switch of processOneRequest: which targets reach the rule matcher.
Supported(kind) == kind \in {"TCP4Addr", "TCP6Addr", "DomainNameAddr"}

ReqFailMut(c, e) == [c EXCEPT !.failArg = e]

\* req.Fail(e), as recorded in calls.
ReqFail(c, e) == [c EXCEPT !.Fail = @ + 1, !.failArg = e]

\* processOneRequest, the switch on the target's type.  The rule matcher is a
\* collaborator: it returns any rule name with any list of configured upstreams.
Classify ==
    /\ pc = "classify"
    /\ IF Supported(target.kind)
       THEN /\ \E rn \in {"", "block"}, ups \in SeqsUpTo(Range(upstreamNames), MaxCand) :
                 /\ ruleName' = rn
                 /\ upstreams' = ups
            /\ pc' = "select"
            /\ UNCHANGED calls
       ELSE /\ calls' = ReqFail(calls, [Error |-> "nil", ErrType |-> "ProxyAddrUnsupported"])
            /\ pc' = "done"
            /\ UNCHANGED <<ruleName, upstreams>>
    /\ UNCHANGED notApp
    /\ UNCHANGED <<target, selected, pErr, appCtx, reqCtx, relayCtx, half>>

CandidatesMut(rn, ups) == upstreamNames

\* The candidates of the selection: all upstreams when no rule matched.
Candidates(rn, ups) == IF rn = "" THEN upstreamNames ELSE ups

\* Whether the request is rejected by its rule.
Rejected(rn, ups) == rn # "" /\ Len(ups) = 0

\* processOneRequest, "select an upstream", up to the creation of reqCtx.
\* rand.Intn picks any index.
Select ==
    /\ pc = "select"
    /\ IF Rejected(ruleName, upstreams)
       THEN /\ calls' = ReqFail(calls, [Error |-> "nil", ErrType |-> "ProxyNotAllowed"])
            /\ pc' = "done"
            /\ UNCHANGED <<upstreams, selected, reqCtx>>
       ELSE /\ upstreams' = Candidates(ruleName, upstreams)
            /\ \E i \in 1..Len(upstreams') : selected' = upstreams'[i]
            /\ reqCtx' = IF appCtx = "canceled" THEN "canceled" ELSE "active"
            /\ pc' = "request"
            /\ UNCHANGED calls
    /\ UNCHANGED notApp
    /\ UNCHANGED <<target, ruleName, pErr, appCtx, relayCtx, half>>

\* The address handed to upstream.Request.
RequestAddr == target

FailArgMut(e) == [Error |-> e.Error, ErrType |-> "GeneralFailure"]

\* The error handed to req.Fail when the upstream failed.
FailArg(e) == e

\* processOneRequest, "make request": upstream.Request returns a connection or
\* an error; on an error the request is failed and the monitor told.
Request ==
    /\ pc = "request"
    /\ \E e \in UpstreamErrs \cup {NoErr} :
         /\ pErr' = e
         /\ IF e # NoErr
            THEN /\ calls' = [ReqFail(calls, FailArg(e)) EXCEPT
                                 !.Request = @ + 1,
                                 !.requestUp = selected,
                                 !.requestAddr = RequestAddr,
                                 !.AddError = @ + 1, !.addErrorArg = selected]
                 /\ pc' = "return"
            ELSE /\ calls' = [calls EXCEPT !.Request = @ + 1,
                                 !.requestUp = selected,
                                 !.requestAddr = RequestAddr]
                 /\ pc' = "success"
    /\ UNCHANGED notApp
    /\ UNCHANGED <<target, ruleName, upstreams, selected, appCtx, reqCtx, relayCtx, half>>

\* req.Success, context.WithCancel(ctx) and OpenTunnelMonitor.
Success ==
    /\ pc = "success"
    /\ calls' = [calls EXCEPT !.Success = @ + 1, !.OpenTunnelMonitor = @ + 1]
    /\ relayCtx' = IF appCtx = "canceled" THEN "canceled" ELSE "active"
    /\ pc' = "spawn"
    /\ UNCHANGED notApp
    /\ UNCHANGED <<target, ruleName, upstreams, selected, pErr, appCtx, reqCtx, half>>

\* doRelay: the two go statements.
Spawn ==
    /\ pc = "spawn"
    /\ half' = [h \in Halves |-> [half[h] EXCEPT !.pc = "read"]]
    /\ pc' = "wait"
    /\ UNCHANGED notApp
    /\ UNCHANGED <<target, ruleName, upstreams, selected, pErr, appCtx, reqCtx,
                   relayCtx, calls>>

\* doRelay: <-relayCtx.Done()
Wait ==
    /\ pc = "wait"
    /\ relayCtx = "canceled"
    /\ pc' = "closeUp"
    /\ UNCHANGED notApp
    /\ UNCHANGED <<target, ruleName, upstreams, selected, pErr, appCtx, reqCtx,
                   relayCtx, calls, half>>

CloseUpMut ==
    /\ pc = "closeUp"
    /\ calls' = [calls EXCEPT !.downClose = @ + 1]
    /\ pc' = "closeDown"
    /\ UNCHANGED notApp
    /\ UNCHANGED <<target, ruleName, upstreams, selected, pErr, appCtx, reqCtx,
                   relayCtx, half>>

\* doRelay: upRWC.Close()
CloseUp ==
    /\ pc = "closeUp"
    /\ calls' = [calls EXCEPT !.upClose = @ + 1]
    /\ pc' = "closeDown"
    /\ UNCHANGED notApp
    /\ UNCHANGED <<target, ruleName, upstreams, selected, pErr, appCtx, reqCtx,
                   relayCtx, half>>

\* doRelay: downRWC.Close()
CloseDown ==
    /\ pc = "closeDown"
    /\ calls' = [calls EXCEPT !.downClose = @ + 1]
    /\ pc' = "tmClose"
    /\ UNCHANGED notApp
    /\ UNCHANGED <<target, ruleName, upstreams, selected, pErr, appCtx, reqCtx,
                   relayCtx, half>>

\* doRelay: the deferred tunnelMonitor.Close(), run as doRelay returns.
TMClose ==
    /\ pc = "tmClose"
    /\ calls' = [calls EXCEPT !.tmClose = @ + 1]
    /\ pc' = "return"
    /\ UNCHANGED notApp
    /\ UNCHANGED <<target, ruleName, upstreams, selected, pErr, appCtx, reqCtx,
                   relayCtx, half>>

\* processOneRequest returns: the deferred cancelFunc of reqCtx runs.
Return ==
    /\ pc = "return"
    /\ reqCtx' = IF reqCtx = "active" THEN "canceled" ELSE reqCtx
    /\ pc' = "done"
    /\ UNCHANGED notApp
    /\ UNCHANGED <<target, ruleName, upstreams, selected, pErr, appCtx, relayCtx,
                   calls, half>>

ConnectDeadlineMut ==
    /\ reqCtx = "active"
    /\ reqCtx' = "deadline"
    /\ relayCtx' = IF relayCtx = "active" THEN "canceled" ELSE relayCtx
    /\ UNCHANGED notApp
    /\ UNCHANGED <<pc, target, ruleName, upstreams, selected, pErr, appCtx,
                   calls, half>>

\* The timer of context.WithTimeout(ctx, t.connectTimeout) fires.
ConnectDeadline ==
    /\ reqCtx = "active"
    /\ reqCtx' = "deadline"
    /\ UNCHANGED notApp
    /\ UNCHANGED <<pc, target, ruleName, upstreams, selected, pErr, appCtx, relayCtx,
                   calls, half>>

\* The context given to Run is cancelled while the request is in progress; its
\* children are cancelled with it.
AppCancel ==
    /\ appCtx = "active"
    /\ pc # "done"
    /\ appCtx' = "canceled"
    /\ reqCtx' = IF reqCtx = "active" THEN "canceled" ELSE reqCtx
    /\ relayCtx' = IF relayCtx = "active" THEN "canceled" ELSE relayCtx
    /\ UNCHANGED notApp
    /\ UNCHANGED <<pc, target, ruleName, upstreams, selected, pErr, calls, half>>

\* The cancel handle given to OpenTunnelMonitor is used.
MonitorCancel ==
    /\ relayCtx = "active"
    /\ relayCtx' = "canceled"
    /\ UNCHANGED notApp
    /\ UNCHANGED <<pc, target, ruleName, upstreams, selected, pErr, appCtx, reqCtx,
                   calls, half>>

\* Whether the endpoint a half reads from has been closed by doRelay.
SrcClosed(h) == IF h = "downstream" THEN calls.downClose > 0 ELSE calls.upClose > 0

\* The bytes a source delivers: its k-th byte is k.
NextBytes(read, nr) == [i \in 1..nr |-> Len(read) + i]

\* relayHalf: src.Read(buf).  It delivers 1..len(buf) bytes, or end-of-stream,
\* or an error.
HalfRead(h) ==
    /\ half[h].pc = "read"
    /\ \/ \E nr \in 1..Min(RelayBufLen, half[h].avail - Len(half[h].srcRead)) :
            half' = [half EXCEPT ![h].buf = NextBytes(half[h].srcRead, nr),
                                 ![h].srcRead = @ \o NextBytes(half[h].srcRead, nr),
                                 ![h].pc = "write"]
       \/ half' = [half EXCEPT ![h].err = "nil", ![h].pc = "log"]   \* io.EOF
       \/ \E e \in {"io error"} \cup (IF SrcClosed(h) THEN {"closed"} ELSE {}) :
            half' = [half EXCEPT ![h].err = e, ![h].pc = "log",
                                 ![h].ctxAtErr = relayCtx]
    /\ UNCHANGED notApp
    /\ UNCHANGED <<pc, target, ruleName, upstreams, selected, pErr, appCtx, reqCtx,
                   relayCtx, calls>>

\* The bytes of dst.Write(buf[:nr]) that reach the destination when it
\* accepts nw of them.
Written(buf, nw) == SubSeq(buf, 1, nw)

HalfWriteMut(h) ==
    /\ half[h].pc = "write"
    /\ \E nw \in 0..Len(half[h].buf), failed \in BOOLEAN :
         half' = [half EXCEPT ![h].dstData = @ \o Written(half[h].buf, nw),
                              ![h].nw = nw,
                              ![h].n = IF failed THEN @ ELSE @ + nw,
                              ![h].err = IF failed THEN "io error"
                                         ELSE IF nw < Len(half[h].buf) THEN "short write"
                                         ELSE "nil",
                              ![h].ctxAtErr = IF failed \/ nw < Len(half[h].buf)
                                              THEN relayCtx ELSE @,
                              ![h].pc = "report"]
    /\ UNCHANGED notApp
    /\ UNCHANGED <<pc, target, ruleName, upstreams, selected, pErr, appCtx, reqCtx,
                   relayCtx, calls>>

\* relayHalf: dst.Write(buf[:nr]) and n += int64(nw).  The destination accepts
\* nw <= nr bytes, with or without an error.
HalfWrite(h) ==
    /\ half[h].pc = "write"
    /\ \E nw \in 0..Len(half[h].buf), failed \in BOOLEAN :
         half' = [half EXCEPT ![h].dstData = @ \o Written(half[h].buf, nw),
                              ![h].nw = nw,
                              ![h].n = @ + nw,
                              ![h].err = IF failed THEN "io error"
                                         ELSE IF nw < Len(half[h].buf) THEN "short write"
                                         ELSE "nil",
                              ![h].ctxAtErr = IF failed \/ nw < Len(half[h].buf)
                                              THEN relayCtx ELSE @,
                              ![h].pc = "report"]
    /\ UNCHANGED notApp
    /\ UNCHANGED <<pc, target, ruleName, upstreams, selected, pErr, appCtx, reqCtx,
                   relayCtx, calls>>

HalfReportMut(h) ==
    /\ half[h].pc = "report"
    /\ calls' = IF h = "downstream"
                THEN [calls EXCEPT !.IncBytesUploaded = @ + half[h].nw,
                                   !.incAfterClose = @ \/ calls.tmClose > 0]
                ELSE [calls EXCEPT !.IncBytesDownloaded = @ + half[h].nw,
                                   !.incAfterClose = @ \/ calls.tmClose > 0]
    /\ half' = [half EXCEPT ![h].pc = IF half[h].err \in {"nil", "short write"}
                                      THEN "read" ELSE "log",
                            ![h].err = IF half[h].err = "short write" THEN "nil" ELSE @]
    /\ UNCHANGED notApp
    /\ UNCHANGED <<pc, target, ruleName, upstreams, selected, pErr, appCtx, reqCtx,
                   relayCtx>>

\* relayHalf: reportBytesTransfered(uint32(nw)), then the two checks of the
\* write's result.
HalfReport(h) ==
    /\ half[h].pc = "report"
    /\ calls' = IF h = "downstream"
                THEN [calls EXCEPT !.IncBytesUploaded = @ + half[h].nw,
                                   !.incAfterClose = @ \/ calls.tmClose > 0]
                ELSE [calls EXCEPT !.IncBytesDownloaded = @ + half[h].nw,
                                   !.incAfterClose = @ \/ calls.tmClose > 0]
    /\ half' = [half EXCEPT ![h].pc = IF half[h].err = "nil" THEN "read" ELSE "log"]
    /\ UNCHANGED notApp
    /\ UNCHANGED <<pc, target, ruleName, upstreams, selected, pErr, appCtx, reqCtx,
                   relayCtx>>

\* The message the relay closure logs for the error relayHalf returned.
LogFor(err, ctx) ==
    IF err = "nil" THEN "connection closed"
    ELSE IF ctx = "canceled" THEN "relay ended"
    ELSE "error occurred"

\* relayHalf returns (its buffer goes back to the pool); the relay closure of
\* doRelay logs the outcome and its deferred cancelFunc() runs.
HalfEnd(h) ==
    /\ half[h].pc = "log"
    /\ half' = [half EXCEPT ![h].log = LogFor(half[h].err, relayCtx),
                            ![h].buf = <<>>,
                            ![h].nw = 0,
                            ![h].ctxAtErr = "",
                            ![h].pc = "done"]
    /\ relayCtx' = "canceled"
    /\ UNCHANGED notApp
    /\ UNCHANGED <<pc, target, ruleName, upstreams, selected, pErr, appCtx, reqCtx,
                   calls>>

IdleFrame == fr = Idle
IdleKA == ka = Idle
IdleDial == dl = Idle
IdleRun == srv = Idle

NextApp ==
    \/ Classify
    \/ Select
    \/ Request
    \/ Success
    \/ Spawn
    \/ Wait
    \/ CloseUp
    \/ CloseDown
    \/ TMClose
    \/ Return
    \/ ConnectDeadline
    \/ AppCancel
    \/ MonitorCancel
    \/ \E h \in Halves : HalfRead(h)
    \/ \E h \in Halves : HalfWrite(h)
    \/ \E h \in Halves : HalfReport(h)
    \/ \E h \in Halves : HalfEnd(h)

AppInit == InitApp /\ IdleFrame /\ IdleKA /\ IdleDial /\ IdleRun

SpecApp == AppInit /\ [][NextApp]_vars

\* doRelay alone, entered for one established tunnel, with longer sources.
InitRelay ==
    /\ pc = "spawn"
    /\ target = [kind |-> "DomainNameAddr", addr |-> "a"]
    /\ ruleName = ""
    /\ upstreams = upstreamNames
    /\ selected = "u1"
    /\ pErr = NoErr
    /\ appCtx = "active"
    /\ reqCtx = "active"
    /\ relayCtx = "active"
    /\ calls = [NoCalls EXCEPT !.Request = 1, !.requestUp = "u1",
                               !.requestAddr = [kind |-> "DomainNameAddr", addr |-> "a"],
                               !.Success = 1, !.OpenTunnelMonitor = 1]
    /\ half = [h \in Halves |-> NoHalf(MaxSrcLen)]
    /\ IdleFrame /\ IdleKA /\ IdleDial /\ IdleRun

NextRelay ==
    \/ Spawn
    \/ Wait
    \/ CloseUp
    \/ CloseDown
    \/ TMClose
    \/ Return
    \/ ConnectDeadline
    \/ AppCancel
    \/ MonitorCancel
    \/ \E h \in Halves : HalfRead(h)
    \/ \E h \in Halves : HalfWrite(h)
    \/ \E h \in Halves : HalfReport(h)
    \/ \E h \in Halves : HalfEnd(h)

SpecRelay == InitRelay /\ [][NextRelay]_vars

(***************************************************************************)
(*                          lib/kcp.go: framing                            *)
(*                                                                         *)
(* Side A writes frames (Write, sendKeepAlive, Close) to the underlying    *)
(* session; side B's kcpConnWrapper.Read parses them.  The session is a    *)
(* reliable byte stream: fr.stream holds the bytes written and not yet     *)
(* read.  Its Read(b) blocks while the stream is empty and otherwise       *)
(* delivers between 1 and len(b) bytes, as io.Reader allows and as the     *)
(* stream mode of the KCP session does at segment boundaries.              *)
(***************************************************************************)

\* Bounds of the framing model.
MaxFrames == 3      \* frames side A writes
MaxPayload == 2     \* longest payload of a Write
MaxBuf == 2         \* longest buffer given to Read

kcpDataPacket == 0
kcpClose == 1
kcpKeepAlive == 2

\* binary.BigEndian.PutUint32
PutUint32(n) == <<(n \div 16777216) % 256, (n \div 65536) % 256, (n \div 256) % 256, n % 256>>

\* binary.BigEndian.Uint32.  The bytes of the model stay below 128, so the
\* value stays below 2^31.
Uint32(h) == (h[1] * 16777216) + (h[2] * 65536) + (h[3] * 256) + h[4]

\* The payload bytes side A writes: the k-th byte written is k, so that the
\* first payload bytes have the values of kcpClose and kcpKeepAlive.
Payload(written, n) == [i \in 1..n |-> Len(written) + i]

InitFrame ==
    fr = [stream |-> <<>>,          \* bytes in the session, A to B
          frames |-> 0,             \* frames written by A
          wrote |-> <<>>,           \* payloads written by A, concatenated
          wroteRet |-> 0,           \* what the last Write returned
          got |-> <<>>,             \* bytes B's Reads returned, concatenated
          pc |-> Idle,              \* position of B's Read
          want |-> 0,               \* len(b) of the Read in progress
          rdDataLeft |-> 0,
          lastSend |-> 1,           \* B's lastSend: 0 once closed
          ret |-> <<0, "nil">>,     \* what B's last Read returned
          sawClose |-> FALSE,       \* a Read of B has met a Close frame
          afterClose |-> FALSE]     \* B's last Read was called after that

\* The frame Write builds for payload p.
DataFrame(p) == <<kcpDataPacket>> \o PutUint32(Len(p)) \o p

\* kcpConnWrapper.Write(b) on side A: one Data frame, handed to the session
\* in a single write, whose result is returned.
KcpWrite ==
    /\ fr.frames < MaxFrames
    /\ \E n \in 0..MaxPayload :
         LET p == Payload(fr.wrote, n)
         IN  fr' = [fr EXCEPT !.stream = @ \o DataFrame(p),
                              !.frames = @ + 1,
                              !.wrote = @ \o p,
                              !.wroteRet = Len(DataFrame(p))]
    /\ UNCHANGED <<appVars, srv, ka, dl>>

\* kcpConnWrapper.sendKeepAlive on side A.
KcpSendKeepAlive ==
    /\ fr.frames < MaxFrames
    /\ fr' = [fr EXCEPT !.stream = Append(@, kcpKeepAlive), !.frames = @ + 1]
    /\ UNCHANGED <<appVars, srv, ka, dl>>

\* kcpConnWrapper.Close on side A: the Close frame.  The session itself is
\* closed after the linger only, so later writes of A still reach B.
KcpClose ==
    /\ fr.frames < MaxFrames
    /\ fr' = [fr EXCEPT !.stream = Append(@, kcpClose), !.frames = @ + 1]
    /\ UNCHANGED <<appVars, srv, ka, dl>>

\* The numbers of bytes c.UDPSession.Read(b) may deliver when len(b) = want
\* and avail bytes are in the session.
SessionRead(want, avail) == 1..Min(want, avail)

\* Read(b) is called on side B with a buffer of 1..MaxBuf bytes.
ReadCall ==
    /\ fr.pc = Idle
    /\ \E len \in 1..MaxBuf :
         fr' = [fr EXCEPT !.pc = "loop", !.want = len, !.afterClose = fr.sawClose]
    /\ UNCHANGED <<appVars, srv, ka, dl>>

\* Read: one turn of the loop "for c.rdDataLeft == 0" up to the switch on the
\* kind byte.
ReadKind ==
    /\ fr.pc = "loop"
    /\ fr.rdDataLeft = 0
    /\ fr.stream # <<>>
    /\ LET kind == Head(fr.stream)
           rest == Tail(fr.stream)
       IN  fr' = CASE kind = kcpClose ->
                        [fr EXCEPT !.stream = rest, !.lastSend = 0, !.sawClose = TRUE,
                                   !.ret = <<0, "EOF">>, !.pc = Idle]
                   [] kind = kcpDataPacket ->
                        [fr EXCEPT !.stream = rest, !.pc = "len"]
                   [] kind = kcpKeepAlive ->
                        [fr EXCEPT !.stream = rest]
                   [] OTHER ->
                        [fr EXCEPT !.stream = rest, !.ret = <<0, "invalid KCP header">>,
                                   !.pc = Idle]
    /\ UNCHANGED <<appVars, srv, ka, dl>>

\* The header array after c.read(header[:]) delivered the bytes got: they
\* overwrite its front, the rest keeps the zeros of "var header [4]byte"
\* (header[0] held kcpDataPacket, which is 0).
Header(got) == [i \in 1..4 |-> IF i <= Len(got) THEN got[i] ELSE 0]

\* Read: c.read(header[:]) and c.rdDataLeft = binary.BigEndian.Uint32(header[:]);
\* the number of bytes the session delivered is not looked at.
ReadLen ==
    /\ fr.pc = "len"
    /\ fr.stream # <<>>
    /\ \E k \in SessionRead(4, Len(fr.stream)) :
         fr' = [fr EXCEPT !.stream = SubSeq(@, k + 1, Len(@)),
                          !.rdDataLeft = Uint32(Header(SubSeq(fr.stream, 1, k))),
                          !.pc = "loop"]
    /\ UNCHANGED <<appVars, srv, ka, dl>>

\* Read: after the loop, b is cut to rdDataLeft, read from the session, and
\* rdDataLeft is decremented by what was delivered.
ReadData ==
    /\ fr.pc = "loop"
    /\ fr.rdDataLeft # 0
    /\ fr.stream # <<>>
    /\ \E k \in SessionRead(Min(fr.want, fr.rdDataLeft), Len(fr.stream)) :
         fr' = [fr EXCEPT !.stream = SubSeq(@, k + 1, Len(@)),
                          !.got = @ \o SubSeq(fr.stream, 1, k),
                          !.rdDataLeft = @ - k,
                          !.ret = <<k, "nil">>,
                          !.pc = Idle]
    /\ UNCHANGED <<appVars, srv, ka, dl>>

\* The error of a session read that fails, for example at the read deadline.
ReadErr == "i/o timeout"

\* Read: one of its three calls of c.read returns an error (the bytes of
\* fr.stream need not have arrived yet) and Read returns (0, err).  Nothing
\* is consumed and no field of the wrapper is written.
ReadFail ==
    /\ fr.pc \in {"loop", "len"}
    /\ fr' = [fr EXCEPT !.ret = <<0, ReadErr>>, !.pc = Idle]
    /\ UNCHANGED <<appVars, srv, ka, dl>>

\* The place in the frame sequence where the next stream byte belongs, for a
\* reader that has consumed what Read has consumed so far: the length after
\* a Data kind byte, else payload while rdDataLeft bytes of it are due, else
\* the kind byte of the next frame.
Position(f) ==
    IF f.pc = "len" THEN "length"
    ELSE IF f.rdDataLeft # 0 THEN "payload"
    ELSE "kind"

\* The place where a Read called in state f starts to parse: the loop
\* "for c.rdDataLeft == 0" reads a kind byte, and payload is read otherwise.
Resume(f) == IF f.rdDataLeft # 0 THEN "payload" ELSE "kind"

NextFrame ==
    \/ KcpWrite
    \/ KcpSendKeepAlive
    \/ KcpClose
    \/ ReadCall
    \/ ReadKind
    \/ ReadLen
    \/ ReadData
    \/ ReadFail

FrameInit == InitFrame /\ IdleApp /\ IdleKA /\ IdleDial /\ IdleRun

SpecFrame == FrameInit /\ [][NextFrame]_vars

(***************************************************************************)
(*                lib/kcp.go: the sizes of kcpConnWrapper.Write            *)
(*                                                                         *)
(* Write for payloads of any length, followed by their sizes only.  A      *)
(* number is a pair <<hi, lo>> of 16-bit halves, hi * 2^16 + lo: a uint32  *)
(* has hi < 2^16, and len(b), an int of 64 bits, may have a larger hi.     *)
(***************************************************************************)

\* Bound of the sizes model: the payload lengths tried are the MaxNear + 1
\* lengths from 0, those up to 2^32 - 1 and those from 2^32.
MaxNear == 9

Half16 == 256 * 256

\* 0xffffffff
MaxUint32 == <<Half16 - 1, Half16 - 1>>

\* x > y
Greater(x, y) == x[1] > y[1] \/ (x[1] = y[1] /\ x[2] > y[2])

\* uint32(x): the low 32 bits.
ToUint32(x) == <<x[1] % Half16, x[2]>>

\* x + k in uint32 arithmetic, as "n + 5" with n a uint32.
AddUint32(x, k) == <<(x[1] + ((x[2] + k) \div Half16)) % Half16, (x[2] + k) % Half16>>

\* x + k in integers.
AddInt(x, k) == <<x[1] + ((x[2] + k) \div Half16), (x[2] + k) % Half16>>

\* The lengths of the payloads tried.
PayloadLens ==
    {<<0, l>> : l \in 0..MaxNear}
      \cup {<<Half16 - 1, Half16 - 1 - k>> : k \in 0..MaxNear}
      \cup {<<Half16, l>> : l \in 0..MaxNear}

NoFrame == [size |-> <<0, 0>>, kind |-> -1, length |-> <<0, 0>>, payload |-> <<0, 0>>]

InitWrite ==
    \E l \in PayloadLens :
      fr = [len |-> l,              \* len(b)
            pc |-> "check",
            n |-> <<0, 0>>,         \* n := uint32(len(b))
            bufLen |-> <<0, 0>>,    \* len(buf)
            frame |-> NoFrame,      \* what buf holds
            lastSend |-> 1,
            writes |-> 0,           \* calls of c.UDPSession.Write
            sent |-> NoFrame,       \* the buffer given to it
            ret |-> <<<<0, 0>>, "nil">>]

\* Write: "if len(b) > 0xffffffff".
WriteCheck ==
    /\ fr.pc = "check"
    /\ fr' = IF Greater(fr.len, MaxUint32)
             THEN [fr EXCEPT !.pc = "done",
                             !.ret = <<<<0, 0>>, "send buffer size exceeds limitation">>]
             ELSE [fr EXCEPT !.pc = "alloc"]
    /\ UNCHANGED <<appVars, srv, ka, dl>>

\* Write: n := uint32(len(b)) and buf := GlobalBufPool.Get(uint(n + 5)), the
\* sum being one of uint32 values.
WriteAlloc ==
    /\ fr.pc = "alloc"
    /\ fr' = [fr EXCEPT !.n = ToUint32(fr.len),
                        !.bufLen = AddUint32(ToUint32(fr.len), 5),
                        !.pc = "fill"]
    /\ UNCHANGED <<appVars, srv, ka, dl>>

\* Write: buf[0] = kcpDataPacket, PutUint32(buf[1:5], n), copy(buf[5:], b).
\* The slice buf[5:] of a buffer shorter than 5 bytes panics.
WriteFill ==
    /\ fr.pc = "fill"
    /\ fr' = IF Greater(<<0, 5>>, fr.bufLen)
             THEN [fr EXCEPT !.pc = "panic"]
             ELSE [fr EXCEPT !.pc = "send",
                             !.frame = [size |-> fr.bufLen, kind |-> kcpDataPacket,
                                        length |-> fr.n, payload |-> fr.len]]
    /\ UNCHANGED <<appVars, srv, ka, dl>>

\* Write: the stores of lastSend and lastWriteStart, then
\* "return c.UDPSession.Write(buf)", which sends all of buf or fails.
WriteSend ==
    /\ fr.pc = "send"
    /\ \E ok \in BOOLEAN :
         fr' = [fr EXCEPT !.pc = "done",
                          !.lastSend = 2,
                          !.writes = @ + 1,
                          !.sent = fr.frame,
                          !.ret = IF ok THEN <<fr.bufLen, "nil">>
                                  ELSE <<<<0, 0>>, "io error">>]
    /\ UNCHANGED <<appVars, srv, ka, dl>>

NextWrite ==
    \/ WriteCheck
    \/ WriteAlloc
    \/ WriteFill
    \/ WriteSend

WriteInit == InitWrite /\ IdleApp /\ IdleKA /\ IdleDial /\ IdleRun

SpecWrite == WriteInit /\ [][NextWrite]_vars

(***************************************************************************)
(*                   lib/kcp.go: the keep-alive manager                    *)
(*                                                                         *)
(* A transport with keep-alive configured, its connection list, the        *)
(* manager goroutine, and for every connection the goroutines that store   *)
(* its timestamps: a reader, a writer, a user's Close, the Close the       *)
(* manager dispatches and the sendKeepAlive goroutines it dispatches.      *)
(* Time is counted in periods of the manager's ticker; time.Now() is the   *)
(* time of the last tick.  A call of the underlying session is a step of   *)
(* its own: it returns when that step is taken.                            *)
(***************************************************************************)

\* Bounds of the keep-alive model.
MaxTime == 7        \* the clock stops here
MaxKATasks == 1     \* sendKeepAlive goroutines of one connection in flight

\* keep_alive_interval and keep_alive_timeout of the configuration, in
\* nanoseconds of the model.
keepAliveInterval == 4
keepAliveTimeout == 5

\* The period of time.NewTicker(t.keepAliveInterval / 4).
TickPeriod == keepAliveInterval \div 4

ConnIds == {"c1"}

\* The goroutines that may close or ping a connection: the user's Close, the
\* Close dispatched by the manager, and the sendKeepAlive goroutines.
KATaskNames == <<"ka1", "ka2", "ka3">>
KATaskIds == {KATaskNames[i] : i \in 1..MaxKATasks}
TaskIds == {"user", "mgr"} \cup KATaskIds

\* A connection before wrapKCPConn made it.
NoConn == [made |-> FALSE, lastSend |-> 0, lastReadStart |-> 0, lastWriteStart |-> 0,
           rd |-> Idle, wr |-> Idle,
           task |-> [t \in TaskIds |-> "none"],
           lingering |-> FALSE, sessClosed |-> FALSE,
           zeroed |-> FALSE, missed |-> FALSE]

InitKA ==
    ka = [now |-> 1,
          list |-> <<>>,                         \* t.conns
          mgr |-> [pc |-> "sleep", rest |-> <<>>, now |-> 0,
                   lastSend |-> 0, lastReadStart |-> 0, zeroedAtLoad |-> FALSE],
          conn |-> [c \in ConnIds |-> NoConn],
          ioLocked |-> FALSE]       \* session I/O was done holding connsMtx

\* The goroutine that holds connsMtx: the manager from the Lock before its
\* scan to the Unlock after it.  wrapKCPConn locks and unlocks within its one
\* step, which does nothing but the insertion.
MtxHolder == IF ka.mgr.pc = "sleep" THEN "none" ELSE "manager"

GoroutineMut(t) == IF t = "user" THEN "user" ELSE "manager"

\* The goroutine that runs task t: the user's own for its Close, and for what
\* the manager dispatches the fresh one of "go conn.Close()" or
\* "go conn.sendKeepAlive()".
Goroutine(t) == IF t = "user" THEN "user" ELSE "spawned"

\* atomic.StoreInt64(&c.lastSend, v) on connection record cn; zeroed notes
\* that lastSend went from a time to 0.
StoreLastSend(cn, v) ==
    [cn EXCEPT !.lastSend = v,
               !.zeroed = @ \/ (v = 0 /\ cn.lastSend # 0)]

\* wrapKCPConn: the wrapper is made and, under connsMtx, pushed to the back of
\* the list.  The manager holds connsMtx during its scan.
WrapKCPConn(c) ==
    /\ ~ka.conn[c].made
    /\ ka.mgr.pc = "sleep"
    /\ ka' = [ka EXCEPT !.conn[c].made = TRUE,
                        !.conn[c].lastSend = ka.now,
                        !.list = Append(@, c)]
    /\ UNCHANGED <<appVars, srv, fr, dl>>

\* runKeepAliveManager: a tick arrives, connsMtx is locked and the scan starts
\* at t.conns.Front(); with an empty list the mutex is unlocked at once.
Tick ==
    /\ ka.mgr.pc = "sleep"
    /\ ka.now < MaxTime
    /\ ka' = [ka EXCEPT !.now = @ + TickPeriod,
                        !.mgr.now = ka.now + TickPeriod,
                        !.mgr.rest = ka.list,
                        !.mgr.pc = IF ka.list = <<>> THEN "sleep" ELSE "loadSend"]
    /\ UNCHANGED <<appVars, srv, fr, dl>>

\* runKeepAliveManager: lastSend := atomic.LoadInt64(&conn.lastSend)
MgrLoadSend ==
    /\ ka.mgr.pc = "loadSend"
    /\ LET c == Head(ka.mgr.rest)
       IN  ka' = [ka EXCEPT !.mgr.lastSend = ka.conn[c].lastSend,
                            !.mgr.zeroedAtLoad = ka.conn[c].zeroed,
                            !.mgr.pc = "loadRead"]
    /\ UNCHANGED <<appVars, srv, fr, dl>>

\* runKeepAliveManager: lastReadStart := atomic.LoadInt64(&conn.lastReadStart)
MgrLoadRead ==
    /\ ka.mgr.pc = "loadRead"
    /\ LET c == Head(ka.mgr.rest)
       IN  ka' = [ka EXCEPT !.mgr.lastReadStart = ka.conn[c].lastReadStart,
                            !.mgr.pc = "act"]
    /\ UNCHANGED <<appVars, srv, fr, dl>>

TreatmentMut(now, lastSend, lastReadStart, lastWriteStart) ==
    IF lastSend # 0 /\ now - lastSend > keepAliveInterval THEN "keepAlive"
    ELSE IF lastSend = 0 THEN "remove"
    ELSE IF lastReadStart > 0 /\ now - lastReadStart > keepAliveTimeout THEN "closeRead"
    ELSE IF lastWriteStart > 0 /\ now - lastWriteStart > keepAliveTimeout THEN "closeWrite"
    ELSE "none"

TreatmentNoReadStall(now, lastSend, lastReadStart, lastWriteStart) ==
    IF lastSend = 0 THEN "remove"
    ELSE IF lastWriteStart > 0 /\ now - lastWriteStart > keepAliveTimeout THEN "closeWrite"
    ELSE IF now - lastSend > keepAliveInterval THEN "keepAlive"
    ELSE "none"

\* The if-chain of the scan on the three loaded values.
Treatment(now, lastSend, lastReadStart, lastWriteStart) ==
    IF lastSend = 0 THEN "remove"
    ELSE IF lastReadStart > 0 /\ now - lastReadStart > keepAliveTimeout THEN "closeRead"
    ELSE IF lastWriteStart > 0 /\ now - lastWriteStart > keepAliveTimeout THEN "closeWrite"
    ELSE IF now - lastSend > keepAliveInterval THEN "keepAlive"
    ELSE "none"

Remove(list, c) == SelectSeq(list, LAMBDA x : x # c)

\* A free slot for a sendKeepAlive goroutine of connection record cn.
FreeKATasks(cn) == {t \in KATaskIds : cn.task[t] = "none"}

\* runKeepAliveManager: the load of lastWriteStart, the if-chain and e = next;
\* after the last element connsMtx is unlocked.
MgrAct ==
    /\ ka.mgr.pc = "act"
    /\ LET c == Head(ka.mgr.rest)
           cn == ka.conn[c]
           tr == Treatment(ka.mgr.now, ka.mgr.lastSend, ka.mgr.lastReadStart,
                           cn.lastWriteStart)
           list2 == IF tr \in {"remove", "closeRead", "closeWrite"}
                    THEN Remove(ka.list, c) ELSE ka.list
           rest2 == Tail(ka.mgr.rest)
       IN  /\ tr = "keepAlive" => FreeKATasks(cn) # {}
           /\ ka' = [ka EXCEPT
                 !.list = list2,
                 !.mgr.rest = rest2,
                 !.mgr.pc = IF rest2 = <<>> THEN "sleep" ELSE "loadSend",
                 !.mgr.lastSend = 0,
                 !.mgr.lastReadStart = 0,
                 !.mgr.zeroedAtLoad = FALSE,
                 !.conn[c].task =
                     IF tr \in {"closeRead", "closeWrite"}
                     THEN [@ EXCEPT !["mgr"] = "clStore"]
                     ELSE IF tr = "keepAlive"
                     THEN [@ EXCEPT ![CHOOSE t \in FreeKATasks(cn) : TRUE] = "kaStore"]
                     ELSE @,
                 !.conn[c].missed =
                     @ \/ (ka.mgr.zeroedAtLoad /\ \E i \in 1..Len(list2) : list2[i] = c)]
    /\ UNCHANGED <<appVars, srv, fr, dl>>

\* Write: atomic.StoreInt64(&c.lastSend, time.Now().UnixNano())
WrStoreSend(c) ==
    /\ ka.conn[c].made
    /\ ka.conn[c].wr = Idle
    /\ ka' = [ka EXCEPT !.conn[c] = [StoreLastSend(@, ka.now) EXCEPT !.wr = "stamped"]]
    /\ UNCHANGED <<appVars, srv, fr, dl>>

\* Write: atomic.StoreInt64(&c.lastWriteStart, time.Now().UnixNano())
WrStoreStart(c) ==
    /\ ka.conn[c].wr = "stamped"
    /\ ka' = [ka EXCEPT !.conn[c].lastWriteStart = ka.now, !.conn[c].wr = "writing"]
    /\ UNCHANGED <<appVars, srv, fr, dl>>

\* Write: c.UDPSession.Write returns and the deferred store of 0 runs.
WrDone(c) ==
    /\ ka.conn[c].wr = "writing"
    /\ ka' = [ka EXCEPT !.conn[c].lastWriteStart = 0, !.conn[c].wr = Idle]
    /\ UNCHANGED <<appVars, srv, fr, dl>>

\* read: atomic.StoreInt64(&c.lastReadStart, time.Now().UnixNano())
RdStart(c) ==
    /\ ka.conn[c].made
    /\ ka.conn[c].rd = Idle
    /\ ka' = [ka EXCEPT !.conn[c].lastReadStart = ka.now, !.conn[c].rd = "reading"]
    /\ UNCHANGED <<appVars, srv, fr, dl>>

\* read: c.UDPSession.Read returns and the deferred store of 0 runs; the byte
\* read may be the kind byte of a Close frame.
RdDone(c) ==
    /\ ka.conn[c].rd = "reading"
    /\ \E next \in {Idle, "gotClose"} :
         ka' = [ka EXCEPT !.conn[c].lastReadStart = 0, !.conn[c].rd = next]
    /\ UNCHANGED <<appVars, srv, fr, dl>>

\* Read, case kcpClose: atomic.StoreInt64(&c.lastSend, 0)
RdGotClose(c) ==
    /\ ka.conn[c].rd = "gotClose"
    /\ ka' = [ka EXCEPT !.conn[c] = [StoreLastSend(@, 0) EXCEPT !.rd = Idle]]
    /\ UNCHANGED <<appVars, srv, fr, dl>>

\* The user of the connection calls Close.
UserClose(c) ==
    /\ ka.conn[c].made
    /\ ka.conn[c].task["user"] = "none"
    /\ ka' = [ka EXCEPT !.conn[c].task["user"] = "clStore"]
    /\ UNCHANGED <<appVars, srv, fr, dl>>

ClStoreMut(c, t) ==
    /\ ka.conn[c].task[t] = "clStore"
    /\ ka' = [ka EXCEPT !.conn[c].task[t] = "clWrite"]
    /\ UNCHANGED <<appVars, srv, fr, dl>>

\* Close: atomic.StoreInt64(&c.lastSend, 0)
ClStore(c, t) ==
    /\ ka.conn[c].task[t] = "clStore"
    /\ ka' = [ka EXCEPT !.conn[c] = [StoreLastSend(@, 0) EXCEPT !.task[t] = "clWrite"]]
    /\ UNCHANGED <<appVars, srv, fr, dl>>

\* Close: SetWriteDeadline and the write of the Close frame, whose result is
\* dropped.
ClWrite(c, t) ==
    /\ ka.conn[c].task[t] = "clWrite"
    /\ ka' = [ka EXCEPT !.conn[c].task[t] = "clLinger",
                        !.ioLocked = @ \/ Goroutine(t) = MtxHolder]
    /\ UNCHANGED <<appVars, srv, fr, dl>>

\* Close: the goroutine that closes the session after the linger is started,
\* and Close returns.
ClLinger(c, t) ==
    /\ ka.conn[c].task[t] = "clLinger"
    /\ ka' = [ka EXCEPT !.conn[c].lingering = TRUE,
                        !.conn[c].task[t] = IF t \in KATaskIds THEN "none" ELSE "done"]
    /\ UNCHANGED <<appVars, srv, fr, dl>>

\* The linger is over: c.UDPSession.Close()
Linger(c) ==
    /\ ka.conn[c].lingering
    /\ ~ka.conn[c].sessClosed
    /\ ka' = [ka EXCEPT !.conn[c].sessClosed = TRUE]
    /\ UNCHANGED <<appVars, srv, fr, dl>>

\* sendKeepAlive: atomic.StoreInt64(&c.lastSend, time.Now().UnixNano())
KaStore(c, t) ==
    /\ ka.conn[c].task[t] = "kaStore"
    /\ ka' = [ka EXCEPT !.conn[c] = [StoreLastSend(@, ka.now) EXCEPT !.task[t] = "kaWrite"]]
    /\ UNCHANGED <<appVars, srv, fr, dl>>

\* sendKeepAlive: the write of the KeepAlive frame; when it fails, c.Close().
\* It fails on a closed session and may fail on an open one.
KaWrite(c, t) ==
    /\ ka.conn[c].task[t] = "kaWrite"
    /\ \E ok \in (IF ka.conn[c].sessClosed THEN {FALSE} ELSE BOOLEAN) :
         ka' = [ka EXCEPT !.conn[c].task[t] = IF ok THEN "none" ELSE "clStore",
                          !.ioLocked = @ \/ Goroutine(t) = MtxHolder]
    /\ UNCHANGED <<appVars, srv, fr, dl>>

NextKA ==
    \/ Tick
    \/ MgrLoadSend
    \/ MgrLoadRead
    \/ MgrAct
    \/ \E c \in ConnIds : WrapKCPConn(c)
    \/ \E c \in ConnIds : WrStoreSend(c)
    \/ \E c \in ConnIds : WrStoreStart(c)
    \/ \E c \in ConnIds : WrDone(c)
    \/ \E c \in ConnIds : RdStart(c)
    \/ \E c \in ConnIds : RdDone(c)
    \/ \E c \in ConnIds : RdGotClose(c)
    \/ \E c \in ConnIds : UserClose(c)
    \/ \E c \in ConnIds, t \in TaskIds : ClStore(c, t)
    \/ \E c \in ConnIds, t \in TaskIds : ClWrite(c, t)
    \/ \E c \in ConnIds, t \in TaskIds : ClLinger(c, t)
    \/ \E c \in ConnIds : Linger(c)
    \/ \E c \in ConnIds, t \in KATaskIds : KaStore(c, t)
    \/ \E c \in ConnIds, t \in KATaskIds : KaWrite(c, t)

KAInit == InitKA /\ IdleApp /\ IdleFrame /\ IdleDial /\ IdleRun

SpecKA == KAInit /\ [][NextKA]_vars

\* The steps of the manager goroutine.
ManagerStep == Tick \/ MgrLoadSend \/ MgrLoadRead \/ MgrAct

\* The steps of the goroutine that runs task t of connection c.
TaskStep(c, t) ==
    \/ ClStore(c, t)
    \/ ClWrite(c, t)
    \/ ClLinger(c, t)
    \/ t \in KATaskIds /\ (KaStore(c, t) \/ KaWrite(c, t))

\* What the runtime guarantees about the goroutines the transport starts: the
\* ticker keeps ticking and the manager, every Close and sendKeepAlive that
\* was started and every linger goroutine keep running.  Nothing is assumed
\* of the users' calls of Read, Write and Close, nor of the peer.
FairKA ==
    /\ WF_vars(ManagerStep)
    /\ \A c \in ConnIds : WF_vars(Linger(c))
    /\ \A c \in ConnIds, t \in TaskIds : WF_vars(TaskStep(c, t))

SpecKALive == KAInit /\ [][NextKA]_vars /\ FairKA

(***************************************************************************)
(*                       lib/kcp.go: KCPTransport.Dial                     *)
(*                                                                         *)
(* Callers dial concurrently on one transport.  Every Dial has its own     *)
(* context, result channel and helper goroutine; the transport's           *)
(* connection list is shared.  The connection of dial d is named d.        *)
(***************************************************************************)

\* Bound of the dial model.
MaxDials == 2       \* concurrent calls of Dial

DialIds == 1..MaxDials

\* ctx.Err() of a context that is done.
CtxErrs == {"context canceled", "context deadline exceeded"}

\* The error of kcp.DialWithOptions.
DialErr == "dial failed"

NoResult == [conn |-> 0, err |-> "nil"]

NoDial ==
    [caller |-> Idle,           \* position of the caller in Dial
     helper |-> Idle,           \* position of the helper goroutine
     ctxErr |-> "nil",          \* ctx.Err(): "nil" until the context is done
     kcpConn |-> 0,             \* what kcp.DialWithOptions returned
     resultCh |-> <<>>,         \* make(chan result, 1)
     ret |-> NoResult,          \* what Dial returned
     lateDial |-> FALSE]        \* ctx was done before the dial completed

InitDial ==
    \E keepAlive \in BOOLEAN :
      dl = [conns |-> IF keepAlive THEN <<>> ELSE "nil",     \* t.conns
            call |-> [d \in DialIds |-> NoDial]]

\* ctx of dial d is cancelled or its deadline passes, before or during Dial.
DialCtxDone(d) ==
    /\ dl.call[d].ctxErr = "nil"
    /\ dl.call[d].caller # "done"
    /\ \E e \in CtxErrs : dl' = [dl EXCEPT !.call[d].ctxErr = e]
    /\ UNCHANGED <<appVars, srv, fr, ka>>

\* Dial is called: the channel is made, the helper is started and the caller
\* arrives at its select.
DialCall(d) ==
    /\ dl.call[d].caller = Idle
    /\ dl' = [dl EXCEPT !.call[d].caller = "select", !.call[d].helper = "dial"]
    /\ UNCHANGED <<appVars, srv, fr, ka>>

\* Helper: kcp.DialWithOptions returns a session or an error.
HelperDial(d) ==
    /\ dl.call[d].helper = "dial"
    /\ \E ok \in BOOLEAN :
         dl' = [dl EXCEPT !.call[d].helper = IF ok THEN "wrap" ELSE "send",
                          !.call[d].kcpConn = IF ok THEN d ELSE 0,
                          !.call[d].lateDial = dl.call[d].ctxErr # "nil"]
    /\ UNCHANGED <<appVars, srv, fr, ka>>

\* Helper: t.wrapKCPConn(kcpConn), which appends the wrapper to t.conns when
\* the transport keeps a list.
HelperWrap(d) ==
    /\ dl.call[d].helper = "wrap"
    /\ dl' = [dl EXCEPT !.call[d].helper = "send",
                        !.conns = IF @ = "nil" THEN @ ELSE Append(@, d)]
    /\ UNCHANGED <<appVars, srv, fr, ka>>

\* The result the helper sends.
HelperResult(kcpConn) ==
    IF kcpConn = 0 THEN [conn |-> 0, err |-> DialErr]
                   ELSE [conn |-> kcpConn, err |-> "nil"]

\* Helper: resultCh <- result{...}.  The channel has room for the one result,
\* so the send does not wait for the caller, and the helper ends.
HelperSend(d) ==
    /\ dl.call[d].helper = "send"
    /\ Len(dl.call[d].resultCh) < 1
    /\ dl' = [dl EXCEPT !.call[d].helper = "done",
                        !.call[d].resultCh = Append(@, HelperResult(dl.call[d].kcpConn))]
    /\ UNCHANGED <<appVars, srv, fr, ka>>

\* Caller: the case "rst := <-resultCh" of the select.
SelectResult(d) ==
    /\ dl.call[d].caller = "select"
    /\ dl.call[d].resultCh # <<>>
    /\ dl' = [dl EXCEPT !.call[d].caller = "done",
                        !.call[d].resultCh = Tail(@),
                        !.call[d].ret = Head(dl.call[d].resultCh)]
    /\ UNCHANGED <<appVars, srv, fr, ka>>

\* Caller: the case "<-ctx.Done()" of the select.  When both cases are ready
\* the select takes either.
SelectCtxDone(d) ==
    /\ dl.call[d].caller = "select"
    /\ dl.call[d].ctxErr # "nil"
    /\ dl' = [dl EXCEPT !.call[d].caller = "done",
                        !.call[d].ret = [conn |-> 0, err |-> dl.call[d].ctxErr]]
    /\ UNCHANGED <<appVars, srv, fr, ka>>

NextDial ==
    \/ \E d \in DialIds : DialCtxDone(d)
    \/ \E d \in DialIds : DialCall(d)
    \/ \E d \in DialIds : HelperDial(d)
    \/ \E d \in DialIds : HelperWrap(d)
    \/ \E d \in DialIds : HelperSend(d)
    \/ \E d \in DialIds : SelectResult(d)
    \/ \E d \in DialIds : SelectCtxDone(d)

DialInit == InitDial /\ IdleApp /\ IdleFrame /\ IdleKA /\ IdleRun

SpecDial == DialInit /\ [][NextDial]_vars

(***************************************************************************)
(*                       app.go: Run and processRequests                   *)
(*                                                                         *)
(* Run starts the downstream servers in the order the map iteration gives, *)
(* one dispatcher goroutine for each, and waits for them.                  *)
(***************************************************************************)

\* Bounds of the Run model.
MaxServers == 2     \* downstream servers configured
MaxReqs == 1        \* requests a server hands to its dispatcher

ServerIds == 1..MaxServers

NoServer ==
    [start |-> "none",      \* server.Start(): "none", "ok" or "failed"
     loop |-> Idle,         \* position of the dispatcher goroutine
     accepted |-> 0,        \* workers it started (go t.processOneRequest)
     stops |-> 0]           \* calls of server.Stop()

InitRun ==
    srv = [ctx |-> "active",            \* the context given to Run
           run |-> "range",             \* position of Run
           ret |-> "none",              \* what Run returned
           wg |-> 0,                    \* the counter of the sync.WaitGroup
           server |-> [s \in ServerIds |-> NoServer]]

\* The context given to Run is cancelled.
RunCtxCancel ==
    /\ srv.ctx = "active"
    /\ srv' = [srv EXCEPT !.ctx = "canceled"]
    /\ UNCHANGED <<appVars, kcpVars>>

\* Run: one turn of the loop over t.downstreams.  server.Start() succeeds,
\* then wg.Add(1) and the go statement; or it fails and Run returns the error.
RunStart(s) ==
    /\ srv.run = "range"
    /\ srv.server[s].start = "none"
    /\ \E ok \in BOOLEAN :
         srv' = IF ok
                THEN [srv EXCEPT !.server[s].start = "ok",
                                 !.server[s].loop = "select",
                                 !.wg = @ + 1]
                ELSE [srv EXCEPT !.server[s].start = "failed",
                                 !.run = "returned",
                                 !.ret = "error"]
    /\ UNCHANGED <<appVars, kcpVars>>

\* Run: the loop over t.downstreams is over; wg.Wait() is next.
RunRangeEnd ==
    /\ srv.run = "range"
    /\ \A s \in ServerIds : srv.server[s].start = "ok"
    /\ srv' = [srv EXCEPT !.run = "wait"]
    /\ UNCHANGED <<appVars, kcpVars>>

\* Run: wg.Wait() returns and Run returns nil.
RunReturn ==
    /\ srv.run = "wait"
    /\ srv.wg = 0
    /\ srv' = [srv EXCEPT !.run = "returned", !.ret = "nil"]
    /\ UNCHANGED <<appVars, kcpVars>>

\* processRequests: the case "req := <-reqCh" of the select, which starts a
\* worker for the request.
Accept(s) ==
    /\ srv.server[s].loop = "select"
    /\ srv.server[s].accepted < MaxReqs
    /\ srv' = [srv EXCEPT !.server[s].accepted = @ + 1]
    /\ UNCHANGED <<appVars, kcpVars>>

\* processRequests: the case "<-ctx.Done()" of the select: it returns.
LoopReturn(s) ==
    /\ srv.server[s].loop = "select"
    /\ srv.ctx = "canceled"
    /\ srv' = [srv EXCEPT !.server[s].loop = "stop"]
    /\ UNCHANGED <<appVars, kcpVars>>

\* The dispatcher goroutine: server.Stop()
ServerStop(s) ==
    /\ srv.server[s].loop = "stop"
    /\ srv' = [srv EXCEPT !.server[s].stops = @ + 1, !.server[s].loop = "wgDone"]
    /\ UNCHANGED <<appVars, kcpVars>>

\* The dispatcher goroutine: wg.Done(), and the goroutine ends.
WgDone(s) ==
    /\ srv.server[s].loop = "wgDone"
    /\ srv' = [srv EXCEPT !.wg = @ - 1, !.server[s].loop = "exit"]
    /\ UNCHANGED <<appVars, kcpVars>>

NextRun ==
    \/ RunCtxCancel
    \/ \E s \in ServerIds : RunStart(s)
    \/ RunRangeEnd
    \/ RunReturn
    \/ \E s \in ServerIds : Accept(s)
    \/ \E s \in ServerIds : LoopReturn(s)
    \/ \E s \in ServerIds : ServerStop(s)
    \/ \E s \in ServerIds : WgDone(s)

RunInit == InitRun /\ IdleApp /\ IdleFrame /\ IdleKA /\ IdleDial

SpecRun == RunInit /\ [][NextRun]_vars

(***************************************************************************)
(*              Properties of the dispatcher and of the relay              *)
(***************************************************************************)

\* The worker is inside doRelay.
InRelay == pc \in {"spawn", "wait", "closeUp", "closeDown", "tmClose"}

\* C1: every request handed to processOneRequest is answered by exactly one
\* of req.Success and req.Fail, called once: Fail for an unsupported target,
\* for a rule that matched with no upstream and for an upstream error, Success
\* otherwise; never both and, once the worker is past the answer, never
\* neither.
C1_ExactlyOneReply ==
    /\ calls.Success + calls.Fail <= 1
    /\ InRelay => calls.Success = 1
    /\ pc \in {"return", "done"} => calls.Success + calls.Fail = 1
    /\ calls.Fail = 1 <=> \/ pc = "done" /\ target.kind = "other"
                          \/ pc = "done" /\ ruleName # "" /\ upstreams = <<>>
                          \/ pErr # NoErr

C1_Witness ==
    /\ pc = "done"
    /\ calls.Success = 1
    /\ calls.tmClose = 1

\* C2: for every call of doRelay, however the relay ends, Close is called
\* exactly once on the upstream endpoint, once on the downstream endpoint and
\* once on the tunnel monitor: never twice, all three by the time doRelay has
\* returned, and none when doRelay was not called.
C2_ClosedOnce ==
    /\ calls.upClose <= 1 /\ calls.downClose <= 1 /\ calls.tmClose <= 1
    /\ pc \in {"return", "done"} /\ calls.OpenTunnelMonitor = 1
          => calls.upClose = 1 /\ calls.downClose = 1 /\ calls.tmClose = 1
    /\ calls.OpenTunnelMonitor = 0
          => calls.upClose = 0 /\ calls.downClose = 0 /\ calls.tmClose = 0

C2_Witness ==
    /\ pc = "done"
    /\ calls.tmClose = 1
    /\ half["downstream"].err = "short write"
    /\ half["upstream"].log = "relay ended"

\* C7: a request the dispatcher rejects itself (unsupported target variant, or
\* a rule that matched with an empty upstream list) never reaches an upstream:
\* upstream.Request, req.Success, monitor.AddError and OpenTunnelMonitor are
\* never called for it, no relay context is made, and it is failed once with
\* ProxyAddrUnsupported, respectively ProxyNotAllowed.
C7_RejectedNeverContacts ==
    LET unsupported == target.kind = "other"
        denied == pc # "classify" /\ ruleName # "" /\ upstreams = <<>>
    IN  unsupported \/ denied =>
          /\ calls.Request = 0
          /\ calls.Success = 0
          /\ calls.AddError = 0
          /\ calls.OpenTunnelMonitor = 0
          /\ relayCtx = "none"
          /\ \A h \in Halves : half[h].pc = Idle
          /\ pc \in {"classify", "select", "done"}
          /\ pc = "done" =>
               /\ calls.Fail = 1
               /\ calls.failArg =
                    [Error |-> "nil",
                     ErrType |-> IF unsupported THEN "ProxyAddrUnsupported"
                                 ELSE "ProxyNotAllowed"]

C7_Witness ==
    /\ pc = "done"
    /\ ruleName = "block"
    /\ upstreams = <<>>
    /\ calls.Fail = 1

\* C8: when upstream.Request returns an error, the request is failed with that
\* same ProxyError, monitor.AddError is called exactly once, with the name of
\* the selected upstream, and req.Success, OpenTunnelMonitor and the relay are
\* not executed.
C8_UpstreamErrorPropagated ==
    pErr # NoErr =>
      /\ pc \in {"return", "done"}
      /\ calls.Request = 1
      /\ calls.Fail = 1
      /\ calls.failArg = pErr
      /\ calls.AddError = 1
      /\ calls.addErrorArg = selected
      /\ calls.addErrorArg = calls.requestUp
      /\ calls.Success = 0
      /\ calls.OpenTunnelMonitor = 0
      /\ relayCtx = "none"
      /\ \A h \in Halves : half[h].pc = Idle
      /\ calls.upClose = 0 /\ calls.downClose = 0 /\ calls.tmClose = 0

C8_Witness ==
    /\ pc = "done"
    /\ pErr = [Error |-> "connection refused", ErrType |-> "ConnectionRefused"]
    /\ calls.Fail = 1
    /\ calls.AddError = 1
    /\ selected = "u2"

\* C9: the upstream contacted is a member of the candidate set, which is the
\* whole configured list when the matcher returned an empty rule name
\* (whatever list came with it) and the matcher's list otherwise; and
\* upstream.Request is called once, on the selected upstream, with the
\* request's target address.
C9_SelectedIsCandidate ==
    [][ /\ pc = "select" /\ pc' = "request" =>
             /\ upstreams' = IF ruleName = "" THEN <<"u1", "u2">> ELSE upstreams
             /\ upstreams' # <<>>
             /\ \E i \in 1..Len(upstreams') : selected' = upstreams'[i]
        /\ pc = "request" /\ pc' # "request" =>
             /\ calls'.Request = calls.Request + 1
             /\ calls'.requestUp = selected
             /\ calls'.requestAddr = target
             /\ \E i \in 1..Len(upstreams) : calls'.requestUp = upstreams[i]
        /\ pc # "request" => calls'.Request = calls.Request
        /\ target' = target
        /\ pc \notin {"classify", "select"} =>
             /\ selected' = selected
             /\ upstreams' = upstreams
             /\ ruleName' = ruleName
      ]_vars

C9_Witness ==
    /\ calls.Request = 1
    /\ ruleName = "block"
    /\ upstreams = <<"u2">>
    /\ calls.requestUp = "u2"
    /\ calls.requestAddr.kind = "TCP6Addr"

\* C10: within one relay half the bytes written to the destination are always
\* a prefix of the bytes read from the source, in the order they were read:
\* what has been read is written before the next read, and no byte is
\* duplicated, reordered or written without having been read.
C10_ForwardedInOrder ==
    \A h \in Halves :
      /\ half[h].srcRead = [i \in 1..Len(half[h].srcRead) |-> i]
      /\ IsPrefix(half[h].dstData, half[h].srcRead)
      /\ half[h].pc = "read" => half[h].dstData = half[h].srcRead
      /\ half[h].pc = "write" =>
           /\ half[h].buf # <<>>
           /\ half[h].srcRead = half[h].dstData \o half[h].buf

C10_Witness ==
    /\ half["downstream"].pc = "read"
    /\ half["downstream"].dstData = <<1, 2, 3>>
    /\ half["upstream"].pc = "write"
    /\ half["upstream"].dstData = <<1>>
    /\ half["upstream"].buf = <<2, 3>>

\* The bytes the tunnel monitor was told of by the half that reads from h.
Reported(h) ==
    IF h = "downstream" THEN calls.IncBytesUploaded ELSE calls.IncBytesDownloaded

C13_ClosesAfterBothHalves ==
    /\ calls.upClose + calls.downClose + calls.tmClose > 0
          => \A h \in Halves : half[h].pc = "done"
    /\ ~calls.incAfterClose

\* C19: the relay context of a tunnel is cancelled only by one of its halves
\* ending, by the cancel handle the tunnel monitor was given (a step that
\* changes nothing else) or by the cancellation of the app context; the end of
\* the connect context, by its deadline or by its cancel, leaves the relay
\* context and the endpoints alone; and once the app context is cancelled the
\* relay context is cancelled too, so that doRelay goes on to close both
\* endpoints.
C19_RelayContext ==
    /\ [][/\ relayCtx = "active" /\ relayCtx' = "canceled" =>
               \/ \E h \in Halves : half[h].pc = "log" /\ half'[h].pc = "done"
               \/ appCtx = "active" /\ appCtx' = "canceled"
               \/ UNCHANGED <<pc, appCtx, reqCtx, calls, half>>
          /\ reqCtx = "active" /\ reqCtx' # "active" /\ appCtx' = appCtx =>
               /\ relayCtx' = relayCtx
               /\ calls' = calls
               /\ half' = half]_vars
    /\ [](appCtx = "canceled" /\ relayCtx # "none" =>
            /\ relayCtx = "canceled"
            /\ pc = "wait" => ENABLED Wait
            /\ pc = "closeUp" => ENABLED CloseUp
            /\ pc = "closeDown" => ENABLED CloseDown)

C19_Witness ==
    /\ pc = "wait"
    /\ reqCtx = "deadline"
    /\ relayCtx = "active"
    /\ calls.IncBytesUploaded = 1
    /\ half["upstream"].pc = "write"

\* C20: Run returns only after Stop has been called exactly once on every
\* downstream server whose Start succeeded, each after its dispatch loop
\* returned, and after the goroutine of each has signalled the wait-group.
C20_RunStopsServers ==
    /\ \A s \in ServerIds :
         /\ srv.server[s].stops <= 1
         /\ srv.server[s].stops = 1 => srv.server[s].loop \in {"wgDone", "exit"}
    /\ srv.run = "returned" =>
         \A s \in ServerIds :
            srv.server[s].start = "ok" =>
               srv.server[s].stops = 1 /\ srv.server[s].loop = "exit"

\* C21: a relay half that ended logs one outcome: "connection closed" exactly
\* when its source returned end-of-stream, "relay ended" only when the relay
\* context was already cancelled when its loop ended, and the warning for
\* every I/O error or short write that came while the relay context was still
\* active (the half was the first to end).
C21_HalfOutcome ==
    [][\A h \in Halves :
         (half[h].pc = "log" /\ half'[h].pc = "done") =>
            /\ half'[h].log \in {"connection closed", "relay ended", "error occurred"}
            /\ half'[h].log = "connection closed" <=> half[h].err = "nil"
            /\ half'[h].log = "relay ended" => half[h].ctxAtErr = "canceled"
            /\ (half[h].err # "nil" /\ half[h].ctxAtErr = "active") =>
                  half'[h].log = "error occurred"
            /\ relayCtx' = "canceled"]_vars

(***************************************************************************)
(*                      Properties of the KCP framing                      *)
(***************************************************************************)

\* C3: for any sequence of Writes, with KeepAlive frames between the frames
\* and any reader buffer sizes, the bytes the peer's Reads return are, in
\* order, the payload bytes written: never a kind, length or KeepAlive byte.
C3_RoundTrip == IsPrefix(fr.got, fr.wrote)

\* C4: a Read that meets a Close frame returns end-of-stream with zero bytes
\* and stores lastSend = 0, and every Read called after it returns
\* end-of-stream with zero bytes too.
C4_EndOfStreamStays ==
    /\ fr.sawClose => fr.lastSend = 0
    /\ fr.sawClose /\ fr.pc = Idle => fr.ret = <<0, "EOF">>

\* C22: after a Data kind byte, Read takes rdDataLeft from exactly the four
\* stream bytes that follow, big-endian, whatever number of bytes the session
\* delivers to one read; delivering payload never makes rdDataLeft negative.
C22_LengthFromFourBytes ==
    [][/\ (fr.pc = "len" /\ fr'.pc = "loop") =>
            /\ Len(fr.stream) >= 4
            /\ fr'.stream = SubSeq(fr.stream, 5, Len(fr.stream))
            /\ fr'.rdDataLeft = Uint32(SubSeq(fr.stream, 1, 4))
       /\ fr'.rdDataLeft >= 0]_vars

\* C25: a Read that fails with an error of the session, wherever in a frame,
\* returns zero bytes, consumes nothing and leaves the wrapper so that the
\* next Read resumes at the place of the frame sequence the stream stands at.
C25_ErrorKeepsPosition ==
    [][(fr.pc \in {"loop", "len"} /\ fr'.pc = Idle /\ fr'.ret[2] = ReadErr) =>
          /\ fr'.ret[1] = 0
          /\ fr'.stream = fr.stream
          /\ fr'.got = fr.got
          /\ Resume(fr') = Position(fr)]_vars

\* C12: Write rejects only payloads longer than 2^32 - 1 bytes; for every
\* payload of length L <= 2^32 - 1 it builds one Data frame of exactly L + 5
\* bytes (kind 0, the length L, the L payload bytes) and gives it to the
\* session in a single write: the size L + 5 does not wrap.
C12_FrameSize ==
    IF Greater(fr.len, MaxUint32)
    THEN fr.pc = "done" =>
           /\ fr.ret[2] = "send buffer size exceeds limitation"
           /\ fr.writes = 0
    ELSE /\ fr.pc # "panic"
         /\ fr.pc = "done" =>
              /\ fr.ret[2] # "send buffer size exceeds limitation"
              /\ fr.writes = 1
              /\ fr.sent = [size |-> AddInt(fr.len, 5), kind |-> kcpDataPacket,
                            length |-> fr.len, payload |-> fr.len]

\* C24: a Write(b) that succeeds returns len(b), the number of payload bytes,
\* never more; this is the number a relay half adds to its count and reports.
C24_WriteReturnsPayloadLength ==
    (fr.pc = "done" /\ fr.ret[2] = "nil") =>
        /\ ~Greater(fr.ret[1], fr.len)
        /\ fr.ret[1] = fr.len

(***************************************************************************)
(*                 Properties of the keep-alive manager                    *)
(***************************************************************************)

\* C5: once lastSend of a listed connection has become 0, the next visit of
\* the manager to that connection removes it from the list, whatever Close,
\* Write, Read and sendKeepAlive do in between.
C5_RemovedWithinOneTick ==
    \A c \in ConnIds : ~ka.conn[c].missed

\* C14: closed is absorbing: once lastSend of a connection has been set to 0,
\* by Close or by a Read that met a Close frame, no later step makes it
\* non-zero again, whatever Write and the dispatched sendKeepAlive goroutines
\* do.
C14_ClosedIsAbsorbing ==
    [][\A c \in ConnIds :
         ka.conn[c].made /\ ka.conn[c].lastSend = 0 => ka'.conn[c].lastSend = 0]_vars

Listed(l, c) == \E i \in 1..Len(l) : l[i] = c

\* C16: the manager's visit to a listed connection gives it exactly one
\* treatment, chosen on the values it loaded, in this order: lastSend = 0, it
\* is removed and nothing is dispatched; else a read pending for longer than
\* the timeout, it is removed and a Close is dispatched; else a write pending
\* for longer than the timeout, the same; else now - lastSend > interval, one
\* sendKeepAlive is dispatched and it stays listed; else nothing changes.
C16_OneTreatment ==
    [][ka.mgr.pc = "act" /\ ka'.mgr.pc # "act" =>
         LET c == Head(ka.mgr.rest)
             now == ka.mgr.now
             lastSend == ka.mgr.lastSend
             lastReadStart == ka.mgr.lastReadStart
             lastWriteStart == ka.conn[c].lastWriteStart
             stalled == \/ lastReadStart > 0 /\ now - lastReadStart > keepAliveTimeout
                        \/ lastWriteStart > 0 /\ now - lastWriteStart > keepAliveTimeout
             before == ka.conn[c].task
             after == ka'.conn[c].task
             pings == {t \in KATaskIds : before[t] = "none" /\ after[t] = "kaStore"}
             sameKA == \A t \in KATaskIds : after[t] = before[t]
         IN  /\ Listed(ka.list, c)
             /\ after["user"] = before["user"]
             /\ IF lastSend = 0
                THEN ~Listed(ka'.list, c) /\ after = before
                ELSE IF stalled
                THEN ~Listed(ka'.list, c) /\ after["mgr"] = "clStore" /\ sameKA
                ELSE IF now - lastSend > keepAliveInterval
                THEN /\ ka'.list = ka.list
                     /\ after["mgr"] = before["mgr"]
                     /\ Cardinality(pings) = 1
                     /\ \A t \in KATaskIds \ pings : after[t] = before[t]
                ELSE ka'.list = ka.list /\ after = before]_vars

C16_Witness ==
    /\ ka.mgr.pc = "sleep"
    /\ ka.list = <<>>
    /\ ka.conn["c1"].task["mgr"] = "clStore"
    /\ ka.conn["c1"].task["ka1"] = "kaWrite"
    /\ ka.conn["c1"].lastSend # 0
    /\ ka.conn["c1"].wr = "writing"

\* A Read of listed connection c, which has not been closed, is pending in the
\* session since a time that lets the manager see it exceed keep_alive_timeout
\* before the clock of the model stops.
ReadStalls(c) ==
    /\ Listed(ka.list, c)
    /\ ~ka.conn[c].zeroed
    /\ ka.conn[c].rd = "reading"
    /\ ka.conn[c].lastReadStart + keepAliveTimeout < MaxTime

\* Connection c is off the list, its lastSend has been set to 0 and a Close
\* has attempted its Close frame.
Reaped(c) ==
    /\ ~Listed(ka.list, c)
    /\ ka.conn[c].zeroed
    /\ ka.conn[c].lingering

Closing(c, t) == ka.conn[c].task[t] \in {"clStore", "clWrite", "clLinger"}

\* C18: every call of Close goes the same way and never fails: it first
\* stores lastSend = 0, then makes its one attempt to write the Close frame,
\* then starts the linger and returns; the session is closed by a linger
\* goroutine only, so after an attempt and a linger delay; and no step of
\* Close waits for the peer, so that Close always returns.
C18_CloseOrder ==
    /\ [][\A c \in ConnIds :
            /\ \A t \in TaskIds :
                 LET before == ka.conn[c].task[t]
                     after == ka'.conn[c].task[t]
                     sessionKept == /\ ka'.conn[c].sessClosed = ka.conn[c].sessClosed
                                    /\ ka'.conn[c].lingering = ka.conn[c].lingering
                 IN  /\ before = "clStore" /\ after # before =>
                          after = "clWrite" /\ ka'.conn[c].lastSend = 0 /\ sessionKept
                     /\ before = "clWrite" /\ after # before =>
                          after = "clLinger" /\ sessionKept
                     /\ before = "clLinger" /\ after # before =>
                          /\ after \in {"none", "done"}
                          /\ ka'.conn[c].lingering
                          /\ ka'.conn[c].sessClosed = ka.conn[c].sessClosed
            /\ ka'.conn[c].sessClosed /\ ~ka.conn[c].sessClosed => ka.conn[c].lingering]_vars
    /\ [](\A c \in ConnIds, t \in TaskIds : Closing(c, t) => ENABLED TaskStep(c, t))

C18_Witness ==
    /\ ka.conn["c1"].task["user"] = "done"
    /\ ka.conn["c1"].sessClosed
    /\ ka.conn["c1"].task["mgr"] = "none"
    /\ ka.conn["c1"].task["ka1"] = "none"
    /\ ka.list = <<>>

(***************************************************************************)
(*                           Properties of Dial                            *)
(***************************************************************************)

\* C6: when the context given to Dial is done before the underlying dial
\* completes, Dial returns the context's error and no connection, however the
\* helper goroutine and the caller interleave.
C6_CancelledDialReturnsCtxErr ==
    \A d \in DialIds :
        dl.call[d].caller = "done" /\ dl.call[d].lateDial =>
            /\ dl.call[d].ret.conn = 0
            /\ dl.call[d].ret.err = dl.call[d].ctxErr

\* The connection dial d produced has been wrapped and is in the list of the
\* keep-alive manager.  No step of Dial or of its helper closes a connection.
Registered(d) ==
    /\ dl.call[d].kcpConn # 0
    /\ dl.conns # "nil"
    /\ \E i \in 1..Len(dl.conns) : dl.conns[i] = dl.call[d].kcpConn

\* C23: when Dial has returned the context's error, the helper goroutine is
\* never blocked at its send (the channel has room), and the connection the
\* dial produced, which Dial did not return, is not left open and registered
\* in the keep-alive list.
C23_DiscardedResultNotLeaked ==
    \A d \in DialIds :
        (dl.call[d].caller = "done" /\ dl.call[d].ret.err \in CtxErrs) =>
            /\ dl.call[d].helper = "send" => Len(dl.call[d].resultCh) < 1
            /\ ~Registered(d)

====
